---- MODULE Spec2Model ----
(***************************************************************************)
(* Model of mili's Ranker (src/include/ranker.h): a std::list kept sorted  *)
(* under Comp, bounded by TOP, with a disposal policy invoked on every     *)
(* element that leaves the list.                                           *)
(*                                                                         *)
(* The element type T is modelled by small integers.  Comp orders them by  *)
(* Key, so two different values can be equivalent under Comp while being   *)
(* different under operator==.  Every inserted copy gets an instance       *)
(* number (its index in `inserted`), which is how the model tells apart    *)
(* the list nodes the code works on.                                       *)
(***************************************************************************)
EXTENDS Integers, Sequences, FiniteSets

VARIABLES ranking, TOP, Behavior, Order, alive, inserted, disposed, before, lastOp,
          success, disposedBefore, endUse, strayDisposals, answer, chain,
          brokenCalls, argDisposals

\* ranking         the std::list, top first; each node is [val, id]
\* TOP             the capacity given to the constructor
\* Behavior        the SameValueBehavior template argument
\* alive           FALSE once the destructor has run, the process has been
\*                 killed, or a call has been made that does not return
\* inserted        the values given to insert, in call order (index = id)
\* disposed        disposed[id]: how often DisposalPolicy was invoked on node id
\* before          ranking as it was when the last operation was called
\* disposedBefore  disposed as it was when the last operation was called
\* lastOp          the member called last and its argument
\* success         what the most recent insert returned
\* Order           which Comp the ranking was instantiated with
\* endUse          what the code has done to the end() position of the list
\* strayDisposals  DisposalPolicy invocations on objects that are no list node
\* answer          what the query called last returned
\* chain           "sound": the list is well formed; "broken": the head or a
\*                 node of the list lies in storage that has been released
\* brokenCalls     how many members have been called on a broken list
\* argDisposals    argDisposals[v]: how often DisposalPolicy was invoked on the
\*                 argument of a T* overload that converts to the value v
vars == <<ranking, TOP, Behavior, Order, alive, inserted, disposed, before, lastOp,
          success, disposedBefore, endUse, strayDisposals, answer, chain,
          brokenCalls, argDisposals>>

cfg == <<TOP, Behavior, Order>>

\* What the operations on present elements never touch.
stray == <<endUse, strayDisposals, chain, brokenCalls, argDisposals>>

(* ------------------------------ bounds -------------------------------- *)

MaxVal == 3

MaxTop == 3

MaxInserts == 4

\* How many disposal invocations on objects that are no list node are followed.
MaxStray == 2

\* How many calls of members on a broken list are followed.
MaxBrokenCalls == 1

\* How many times round the nodes a disposal loop that does not arrive at
\* end() is followed.
MaxRounds == 2

\* How many handles are inserted into a ranking that releases its elements.
MaxHandles == 3

\* How many calls of the T* overloads of such a ranking are followed.
MaxArgDeletes == 1

Values == 0..MaxVal

SameValueBehavior == {"AddBeforeEqual", "AddAfterEqual"}

(* ---------------------- the injected policies ------------------------- *)

\* The rank a value is ordered by: 0 | 1 2 | 3 4 | ...
Key(v) == (v + 1) \div 2

\* A Comp that is a strict partial order only: less by two or more.  0 and 1
\* are incomparable, 1 and 2 are incomparable, yet 0 is less than 2.
PartialLess(a, b) == a + 2 <= b

\* Comp()(a, b): by default a strict weak ordering on T that is coarser than
\* operator==; the strict partial order when the ranking is instantiated so.
Comp(a, b) == IF Order = "weak" THEN Key(a) < Key(b) ELSE PartialLess(a, b)

\* a and b are equivalent under Comp (neither compares less than the other).
Equiv(a, b) == ~Comp(a, b) /\ ~Comp(b, a)

(* --------------------------- std helpers ------------------------------ *)

\* Positions are 1-based; the end() iterator of a list r is Len(r) + 1.
End(r) == Len(r) + 1

RECURSIVE lower_bound(_, _, _, _)
lower_bound(r, first, len, v) ==
    IF len <= 0 THEN first
    ELSE LET half == len \div 2
             middle == first + half
         IN IF Comp(r[middle].val, v)
            THEN lower_bound(r, middle + 1, len - half - 1, v)
            ELSE lower_bound(r, first, half, v)

RECURSIVE upper_bound(_, _, _, _)
upper_bound(r, first, len, v) ==
    IF len <= 0 THEN first
    ELSE LET half == len \div 2
             middle == first + half
         IN IF Comp(v, r[middle].val)
            THEN upper_bound(r, first, half, v)
            ELSE upper_bound(r, middle + 1, len - half - 1, v)

RECURSIVE equal_range_from(_, _, _, _)
equal_range_from(r, first, len, v) ==
    IF len <= 0 THEN <<first, first>>
    ELSE LET half == len \div 2
             middle == first + half
         IN IF Comp(r[middle].val, v)
            THEN equal_range_from(r, middle + 1, len - half - 1, v)
            ELSE IF Comp(v, r[middle].val)
            THEN equal_range_from(r, first, half, v)
            ELSE <<lower_bound(r, first, half, v),
                   upper_bound(r, middle + 1, len - half - 1, v)>>

\* equal_range with a comparator that never answers true: the whole list
\* is taken for one equivalent run.
equal_range_no_order(r, v) == <<1, End(r)>>

\* equal_range(ranking.begin(), ranking.end(), element, Comp())
equal_range(r, v) == equal_range_from(r, 1, Len(r), v)

\* list::insert(pos, x): x is linked in before pos.
list_insert(r, pos, x) == SubSeq(r, 1, pos - 1) \o <<x>> \o SubSeq(r, pos, Len(r))

\* list::erase(pos)
list_erase(r, pos) == SubSeq(r, 1, pos - 1) \o SubSeq(r, pos + 1, Len(r))

\* std::find(begin, end, v): the first position holding a value == v, or end.
RECURSIVE find_from(_, _, _)
find_from(r, i, v) ==
    IF i > Len(r) THEN End(r)
    ELSE IF r[i].val = v THEN i
    ELSE find_from(r, i + 1, v)

\* find matching by equivalence under Comp in place of ==.
find_equiv(r, v) ==
    IF \E i \in 1..Len(r) : Equiv(r[i].val, v)
    THEN CHOOSE i \in 1..Len(r) :
            Equiv(r[i].val, v) /\ \A j \in 1..(i - 1) : ~Equiv(r[j].val, v)
    ELSE End(r)

find(r, v) == find_from(r, 1, v)

\* list::remove matching by equivalence under Comp in place of ==.
RECURSIVE list_remove_equiv(_, _)
list_remove_equiv(r, v) ==
    IF r = <<>> THEN <<>>
    ELSE IF Equiv(Head(r).val, v) THEN list_remove_equiv(Tail(r), v)
    ELSE <<Head(r)>> \o list_remove_equiv(Tail(r), v)

\* list::remove(v): drops every node whose value == v.
RECURSIVE list_remove(_, _)
list_remove(r, v) ==
    IF r = <<>> THEN <<>>
    ELSE IF Head(r).val = v THEN list_remove(Tail(r), v)
    ELSE <<Head(r)>> \o list_remove(Tail(r), v)

(* ------------------------- disposal policy ---------------------------- *)

\* DisposalPolicy()(x): one more invocation recorded for the instance x.
Dispose(d, x) == [d EXCEPT ![x.id] = @ + 1]

\* The disposal loop of remove_all using Comp-equivalence in place of ==.
RECURSIVE dispose_equal_comp(_, _, _, _)
dispose_equal_comp(d, r, it, v) ==
    IF it > Len(r) THEN d
    ELSE IF Equiv(v, r[it].val)
         THEN dispose_equal_comp(Dispose(d, r[it]), r, it + 1, v)
         ELSE dispose_equal_comp(d, r, it + 1, v)

\* The disposal loop of remove_all: every node with element == *it.
RECURSIVE dispose_equal(_, _, _, _)
dispose_equal(d, r, it, v) ==
    IF it > Len(r) THEN d
    ELSE IF v = r[it].val THEN dispose_equal(Dispose(d, r[it]), r, it + 1, v)
    ELSE dispose_equal(d, r, it + 1, v)

\* The disposal loop of clear stopping one node short of end().
RECURSIVE dispose_each_but_last(_, _, _)
dispose_each_but_last(d, r, it) ==
    IF it >= Len(r) THEN d
    ELSE dispose_each_but_last(Dispose(d, r[it]), r, it + 1)

\* The disposal loop of clear: every node.
RECURSIVE dispose_each(_, _, _)
dispose_each(d, r, it) ==
    IF it > Len(r) THEN d
    ELSE dispose_each(Dispose(d, r[it]), r, it + 1)

(* ------------------------------ insert -------------------------------- *)

\* top_not_reached with <= in place of <.
top_not_reached_le(r, top) == Len(r) <= top

\* top_not_reached counting the element about to be inserted twice.
top_not_reached_early(r, top) == Len(r) + 1 < top

\* const bool top_not_reached (ranking.size() < TOP);
top_not_reached(r, top) == Len(r) < top

\* insert_pos ignoring Behavior: always position.second.
insert_pos_second(behavior, position) == position[2]

\* insert_pos ignoring Behavior: always position.first.
insert_pos_first(behavior, position) == position[1]

\* insert_pos with the two branches exchanged.
insert_pos_swapped(behavior, position) ==
    IF behavior = "AddBeforeEqual" THEN position[2] ELSE position[1]

\* if(Behavior == AddBeforeEqual) pos = position.first; else pos = position.second;
insert_pos(behavior, position) ==
    IF behavior = "AddBeforeEqual" THEN position[1] ELSE position[2]

\* distance_to_end taking pos for the inserted node itself.
distance_from_new(r1, pos) == End(r1) - pos

\* distance(pos, ranking.end()) after ranking.insert(pos, element): pos still
\* designates the node that followed the insertion point, now one further on.
distance_to_end(r1, pos) == End(r1) - (pos + 1)

\* insert_success reporting failure whenever an eviction takes place.
insert_success_evicting(tnr, r1, pos) == tnr

\* success: true unless the list was full and the element went in at the end.
insert_success(tnr, r1, pos) ==
    IF ~tnr /\ distance_to_end(r1, pos) = 0 THEN FALSE ELSE TRUE

\* back taking ranking.begin() for the node to evict.
back_is_begin(r) == 1

\* The position --ranking.end().
back(r) == Len(r)

\* The members are called on an object that has not been destroyed and whose
\* list is well formed.
usable == alive /\ chain = "sound"

Init ==
    /\ ranking = <<>>
    /\ TOP \in 0..MaxTop
    /\ Behavior \in SameValueBehavior
    /\ alive = TRUE
    /\ inserted = <<>>
    /\ disposed = <<>>
    /\ before = <<>>
    /\ disposedBefore = <<>>
    /\ lastOp = [op |-> "ctor", arg |-> 0]
    /\ success = TRUE
    /\ Order = "weak"
    /\ endUse = {}
    /\ strayDisposals = 0
    /\ answer = [q |-> "none"]
    /\ chain = "sound"
    /\ brokenCalls = 0
    /\ argDisposals = [v \in Values |-> 0]

insert(element) ==
    /\ usable
    /\ Len(inserted) < MaxInserts
    /\ LET position == equal_range(ranking, element)
           tnr == top_not_reached(ranking, TOP)
           pos == insert_pos(Behavior, position)
           node == [val |-> element, id |-> Len(inserted) + 1]
           r1 == list_insert(ranking, pos, node)
           d1 == Append(disposed, 0)
       IN /\ inserted' = Append(inserted, element)
          /\ success' = insert_success(tnr, r1, pos)
          /\ IF ~tnr
             THEN /\ disposed' = Dispose(d1, r1[back(r1)])
                  /\ ranking' = list_erase(r1, back(r1))
             ELSE /\ disposed' = d1
                  /\ ranking' = r1
    /\ before' = ranking
    /\ disposedBefore' = disposed
    /\ lastOp' = [op |-> "insert", arg |-> element]
    /\ answer' = [q |-> "none"]
    /\ UNCHANGED <<cfg, alive, stray>>

\* remove_first(const T&) of an element that is present.
remove_first(element) ==
    /\ usable
    /\ find(ranking, element) # End(ranking)
    /\ LET pos == find(ranking, element)
       IN /\ disposed' = Dispose(disposed, ranking[pos])
          /\ ranking' = list_erase(ranking, pos)
    /\ before' = ranking
    /\ disposedBefore' = disposed
    /\ lastOp' = [op |-> "remove_first", arg |-> element]
    /\ answer' = [q |-> "none"]
    /\ UNCHANGED <<cfg, alive, inserted, success, stray>>

\* remove_all(const T&)
remove_all(element) ==
    /\ usable
    /\ disposed' = dispose_equal(disposed, ranking, 1, element)
    /\ ranking' = list_remove(ranking, element)
    /\ before' = ranking
    /\ disposedBefore' = disposed
    /\ lastOp' = [op |-> "remove_all", arg |-> element]
    /\ answer' = [q |-> "none"]
    /\ UNCHANGED <<cfg, alive, inserted, success, stray>>

clear_list ==
    /\ disposed' = dispose_each(disposed, ranking, 1)
    /\ ranking' = <<>>
    /\ before' = ranking
    /\ disposedBefore' = disposed

clear ==
    /\ usable
    /\ clear_list
    /\ lastOp' = [op |-> "clear", arg |-> 0]
    /\ answer' = [q |-> "none"]
    /\ UNCHANGED <<cfg, alive, inserted, success, stray>>

\* ~Ranker(): this->clear(); the object is gone afterwards.
destructor ==
    /\ usable
    /\ clear_list
    /\ alive' = FALSE
    /\ lastOp' = [op |-> "destructor", arg |-> 0]
    /\ answer' = [q |-> "none"]
    /\ UNCHANGED <<cfg, inserted, success, stray>>

Next ==
    \/ \E element \in Values : insert(element)
    \/ \E element \in Values : remove_first(element)
    \/ \E element \in Values : remove_all(element)
    \/ clear
    \/ destructor

Spec == Init /\ [][Next]_vars

\* Only insert calls are made.
NextInsert == \E element \in Values : insert(element)

SpecInsert == Init /\ [][NextInsert]_vars

(* ------------------- Comp a strict partial order ---------------------- *)

\* A ranking instantiated with the strict partial order for Comp.
InitPartial ==
    /\ ranking = <<>>
    /\ TOP \in 0..MaxTop
    /\ Behavior \in SameValueBehavior
    /\ alive = TRUE
    /\ inserted = <<>>
    /\ disposed = <<>>
    /\ before = <<>>
    /\ disposedBefore = <<>>
    /\ lastOp = [op |-> "ctor", arg |-> 0]
    /\ success = TRUE
    /\ Order = "partial"
    /\ endUse = {}
    /\ strayDisposals = 0
    /\ answer = [q |-> "none"]
    /\ chain = "sound"
    /\ brokenCalls = 0
    /\ argDisposals = [v \in Values |-> 0]

SpecPartial == InitPartial /\ [][NextInsert]_vars

(* ------------------------------ queries ------------------------------- *)

\* ranking.empty()
list_empty(r) == Len(r) = 0

\* ranking.size()
list_size(r) == Len(r)

\* list_front returning the node before end().
list_front_is_back(r) == r[Len(r)]

\* *(ranking.begin())
list_front(r) == r[1]

\* *(--ranking.end())
list_back(r) == r[End(r) - 1]

\* The nodes a traversal from it to end() visits.
RECURSIVE traverse(_, _)
traverse(r, it) == IF it = End(r) THEN <<>> ELSE <<r[it]>> \o traverse(r, it + 1)

\* What every query leaves alone: everything but the answer it gives.
state == <<ranking, cfg, alive, inserted, disposed, before, lastOp, success,
           disposedBefore, stray>>

empty ==
    /\ usable
    /\ answer' = [q |-> "empty", value |-> list_empty(ranking)]
    /\ UNCHANGED state

size ==
    /\ usable
    /\ answer' = [q |-> "size", value |-> list_size(ranking)]
    /\ UNCHANGED state

\* top() of a ranking that is not empty.
top ==
    /\ usable
    /\ ranking # <<>>
    /\ answer' = [q |-> "top", value |-> list_front(ranking)]
    /\ UNCHANGED state

\* bottom() of a ranking that is not empty.
bottom ==
    /\ usable
    /\ ranking # <<>>
    /\ answer' = [q |-> "bottom", value |-> list_back(ranking)]
    /\ UNCHANGED state

\* for(it = begin(); it != end(); ++it)
iterate ==
    /\ usable
    /\ answer' = [q |-> "iterate", value |-> traverse(ranking, 1)]
    /\ UNCHANGED state

\* The queries, asked of the rankings that insert and clear build.
NextQuery ==
    \/ \E element \in Values : insert(element)
    \/ clear
    \/ empty
    \/ size
    \/ top
    \/ bottom
    \/ iterate

SpecQuery == Init /\ [][NextQuery]_vars

(* ----------------------- the T* overloads ----------------------------- *)

\* The argument of a T* overload is compared and disposed as the T it
\* converts to; `element` below is that value.

\* remove_first(T*) of an element that is present: the disposal policy is
\* invoked on the argument, not on the node found, and the node is erased.
remove_first_ptr(element) ==
    /\ usable
    /\ strayDisposals < MaxStray
    /\ find(ranking, element) # End(ranking)
    /\ LET pos == find(ranking, element)
       IN /\ strayDisposals' = strayDisposals + 1
          /\ argDisposals' = [argDisposals EXCEPT ![element] = @ + 1]
          /\ ranking' = list_erase(ranking, pos)
    /\ before' = ranking
    /\ disposedBefore' = disposed
    /\ lastOp' = [op |-> "remove_first_ptr", arg |-> element]
    /\ answer' = [q |-> "none"]
    /\ UNCHANGED <<cfg, alive, inserted, success, disposed, endUse, chain,
                   brokenCalls>>

\* remove_all(T*): the disposal policy is invoked once on the argument,
\* whatever the list holds, and list::remove drops the nodes == it.
remove_all_ptr(element) ==
    /\ usable
    /\ strayDisposals < MaxStray
    /\ strayDisposals' = strayDisposals + 1
    /\ argDisposals' = [argDisposals EXCEPT ![element] = @ + 1]
    /\ ranking' = list_remove(ranking, element)
    /\ before' = ranking
    /\ disposedBefore' = disposed
    /\ lastOp' = [op |-> "remove_all_ptr", arg |-> element]
    /\ answer' = [q |-> "none"]
    /\ UNCHANGED <<cfg, alive, inserted, success, disposed, endUse, chain,
                   brokenCalls>>

NextPtr ==
    \/ Next
    \/ \E element \in Values : remove_first_ptr(element)
    \/ \E element \in Values : remove_all_ptr(element)

SpecPtr == Init /\ [][NextPtr]_vars

(* ------------- remove_first of an element that is absent -------------- *)

\* What can follow erase(end()).  list::erase decrements the size, unhooks
\* the node it is given and hands it to operator delete; the node given is
\* the list's own sentinel, which lies inside the Ranker.  Either the
\* allocator aborts the process on being handed that address, or the call
\* returns: the sentinel is then no longer linked to the nodes, and the
\* storage the list's head lies in has been released.
EraseEndOutcomes == {"abort", "return"}

\* The list after erase(end()) with the given outcome.
erase_end(outcome) == IF outcome = "return" THEN "broken" ELSE chain

\* What can follow a call of the disposal policy on something that is no
\* element of the list, *end() or the argument of a T* overload: a policy
\* that releases its argument, as DisposalDeletePolicy does, is killed on it
\* or returns.
PolicyOutcomes == {"killed", "return"}

\* remove_first(const T&) when find returns end(): the code goes on to
\* dereference end(), hand the result to the disposal policy and, when that
\* returns, erase end().  No node is disposed of or freed: `ranking` keeps
\* the nodes.
remove_first_absent(element) ==
    /\ usable
    /\ strayDisposals < MaxStray
    /\ find(ranking, element) = End(ranking)
    /\ strayDisposals' = strayDisposals + 1
    /\ \E policy \in PolicyOutcomes :
          \/ /\ policy = "killed"
             /\ endUse' = endUse \cup {"dereferenced"}
             /\ alive' = FALSE
             /\ UNCHANGED chain
          \/ /\ policy = "return"
             /\ endUse' = endUse \cup {"dereferenced", "erased"}
             /\ \E outcome \in EraseEndOutcomes :
                   /\ alive' = (outcome = "return")
                   /\ chain' = erase_end(outcome)
    /\ before' = ranking
    /\ disposedBefore' = disposed
    /\ lastOp' = [op |-> "remove_first", arg |-> element]
    /\ answer' = [q |-> "none"]
    /\ UNCHANGED <<cfg, ranking, disposed, inserted, success, argDisposals,
                   brokenCalls>>

\* remove_first(T*) when find returns end(): the argument is handed to the
\* disposal policy and, when that returns, end() is erased.
remove_first_ptr_absent(element) ==
    /\ usable
    /\ strayDisposals < MaxStray
    /\ find(ranking, element) = End(ranking)
    /\ strayDisposals' = strayDisposals + 1
    /\ argDisposals' = [argDisposals EXCEPT ![element] = @ + 1]
    /\ \E policy \in PolicyOutcomes :
          \/ /\ policy = "killed"
             /\ alive' = FALSE
             /\ UNCHANGED <<endUse, chain>>
          \/ /\ policy = "return"
             /\ endUse' = endUse \cup {"erased"}
             /\ \E outcome \in EraseEndOutcomes :
                   /\ alive' = (outcome = "return")
                   /\ chain' = erase_end(outcome)
    /\ before' = ranking
    /\ disposedBefore' = disposed
    /\ lastOp' = [op |-> "remove_first_ptr", arg |-> element]
    /\ answer' = [q |-> "none"]
    /\ UNCHANGED <<cfg, ranking, disposed, inserted, success, brokenCalls>>

(* ------------------ members called on a broken list ------------------- *)

\* The list is broken once erase(end()) has returned, or once a delete has
\* released storage that a node of the list lies in.  Every member reads,
\* and the mutating ones write, the head and the links of the nodes.  What
\* such a call does depends on what has become of that storage: the process
\* is killed on touching it, the call walks without ever arriving at end(),
\* or the call returns.  What the call meets on its way need not be the
\* nodes the list held when it broke: it can be a node the list has freed,
\* or an object that is no node at all.
BrokenOutcomes == {"killed", "hangs", "returns"}

\* What a call that returns has read from released storage: whatever it held.
INDETERMINATE == "INDETERMINATE"

\* A member is called on a ranking whose list is broken.
broken ==
    /\ alive
    /\ chain = "broken"
    /\ brokenCalls < MaxBrokenCalls
    /\ brokenCalls' = brokenCalls + 1

\* What a query leaves alone apart from the process it runs in.
broken_state == <<ranking, cfg, inserted, disposed, before, lastOp, success,
                  disposedBefore, endUse, strayDisposals, argDisposals, chain>>

\* The instances, in the list or freed, whose value is v.
Instances(ins, v) == {i \in 1..Len(ins) : ins[i] = v}

\* r without the node of instance i.
unlinked(r, i) ==
    LET other(node) == node.id # i
    IN SelectSeq(r, other)

\* The invocations a disposal loop makes on the instances `ids` when it
\* walks a broken list: it reaches each of them any number of times.
Rounds(d, ids) ==
    {extra \in [1..Len(d) -> 0..MaxRounds] :
        \A i \in 1..Len(d) : i \notin ids => extra[i] = 0}

\* d with extra[i] more invocations on instance i.
dispose_more(d, extra) == [i \in 1..Len(d) |-> d[i] + extra[i]]

\* empty(): killed, or either answer.
empty_broken ==
    /\ broken
    /\ \E outcome \in BrokenOutcomes \ {"hangs"} :
          /\ alive' = (outcome = "returns")
          /\ IF outcome = "returns"
             THEN \E value \in BOOLEAN :
                     answer' = [q |-> "empty", value |-> value]
             ELSE answer' = [q |-> "none"]
    /\ UNCHANGED broken_state

\* size(), top(), bottom() or a traversal from begin() to end().  The
\* traversal walks the list, and so does list::size() where the library
\* keeps no count.
query_broken(q) ==
    /\ broken
    /\ \E outcome \in BrokenOutcomes :
          /\ outcome = "hangs" => q \in {"size", "iterate"}
          /\ alive' = (outcome = "returns")
          /\ answer' = IF outcome = "returns"
                       THEN [q |-> q, value |-> INDETERMINATE]
                       ELSE [q |-> "none"]
    /\ UNCHANGED broken_state

\* insert.  The call stops in equal_range; or it links the new node in where
\* equal_range has led it, which is among the nodes of `ranking` or not, and
\* when it finds the list full it disposes of what --end() leads it to, a
\* node, the new one included, or something that is no node, and erases it.
\* It returns false only after an eviction.
insert_broken(element) ==
    /\ broken
    /\ Len(inserted) < MaxInserts
    /\ inserted' = Append(inserted, element)
    /\ LET node == [val |-> element, id |-> Len(inserted) + 1]
           d1 == Append(disposed, 0)
       IN \E outcome \in BrokenOutcomes,
             r1 \in {ranking} \cup
                    {list_insert(ranking, pos, node) : pos \in 1..End(ranking)},
             victim \in {"none", "stray", "node"} :
             /\ alive' = (outcome = "returns")
             /\ IF outcome = "returns"
                THEN \E returned \in BOOLEAN :
                        /\ ~returned => victim # "none"
                        /\ success' = returned
                ELSE success' = success
             /\ IF victim = "node"
                THEN \E it \in 1..Len(d1) :
                        /\ disposed' = [d1 EXCEPT ![it] = @ + 1]
                        /\ ranking' = IF outcome = "returns"
                                      THEN unlinked(r1, it) ELSE r1
                ELSE /\ disposed' = d1
                     /\ ranking' = r1
             /\ IF victim = "stray"
                THEN /\ strayDisposals < MaxStray
                     /\ strayDisposals' = strayDisposals + 1
                ELSE strayDisposals' = strayDisposals
    /\ before' = ranking
    /\ disposedBefore' = disposed
    /\ lastOp' = [op |-> "insert", arg |-> element]
    /\ answer' = [q |-> "none"]
    /\ UNCHANGED <<cfg, endUse, argDisposals, chain>>

\* remove_first(const T&).  The call stops in find; or find stops at
\* something that reads == element, a node or an object that is no node,
\* which is disposed of and then erased; or find stops at end(), which is
\* dereferenced, disposed of and then erased.
remove_first_broken(element) ==
    /\ broken
    /\ \E outcome \in BrokenOutcomes :
          /\ alive' = (outcome = "returns")
          /\ \/ /\ outcome # "returns"
                /\ UNCHANGED <<ranking, disposed, endUse, strayDisposals>>
             \/ /\ outcome # "hangs"
                /\ \E pos \in Instances(inserted, element) :
                      /\ disposed' = [disposed EXCEPT ![pos] = @ + 1]
                      /\ ranking' = IF outcome = "returns"
                                    THEN unlinked(ranking, pos) ELSE ranking
                /\ UNCHANGED <<endUse, strayDisposals>>
             \/ /\ outcome # "hangs"
                /\ strayDisposals < MaxStray
                /\ strayDisposals' = strayDisposals + 1
                /\ UNCHANGED <<ranking, disposed, endUse>>
             \/ /\ outcome # "hangs"
                /\ strayDisposals < MaxStray
                /\ strayDisposals' = strayDisposals + 1
                /\ \E policy \in PolicyOutcomes :
                      /\ policy = "killed" => outcome = "killed"
                      /\ endUse' = endUse \cup
                            (IF policy = "killed" THEN {"dereferenced"}
                             ELSE {"dereferenced", "erased"})
                /\ UNCHANGED <<ranking, disposed>>
    /\ before' = ranking
    /\ disposedBefore' = disposed
    /\ lastOp' = [op |-> "remove_first", arg |-> element]
    /\ answer' = [q |-> "none"]
    /\ UNCHANGED <<cfg, inserted, success, argDisposals, chain>>

\* remove_first(T*).  The call stops in find; or the argument is disposed of
\* and, when the policy returns, what find stopped at is erased: a node, an
\* object that is no node, or end().
remove_first_ptr_broken(element) ==
    /\ broken
    /\ \E outcome \in BrokenOutcomes :
          /\ alive' = (outcome = "returns")
          /\ \/ /\ outcome # "returns"
                /\ UNCHANGED <<ranking, endUse, strayDisposals, argDisposals>>
             \/ /\ outcome # "hangs"
                /\ strayDisposals < MaxStray
                /\ strayDisposals' = strayDisposals + 1
                /\ argDisposals' = [argDisposals EXCEPT ![element] = @ + 1]
                /\ \/ /\ \E pos \in Instances(inserted, element) :
                            ranking' = IF outcome = "returns"
                                       THEN unlinked(ranking, pos)
                                       ELSE ranking
                      /\ UNCHANGED endUse
                   \/ UNCHANGED <<ranking, endUse>>
                   \/ /\ endUse' = endUse \cup {"erased"}
                      /\ UNCHANGED ranking
    /\ before' = ranking
    /\ disposedBefore' = disposed
    /\ lastOp' = [op |-> "remove_first_ptr", arg |-> element]
    /\ answer' = [q |-> "none"]
    /\ UNCHANGED <<cfg, inserted, success, disposed, chain>>

\* remove_all(const T&).  The loop disposes of whatever it meets that reads
\* == element, nodes and objects that are no node, any number of times;
\* list::remove then drops the nodes == element that it meets.
remove_all_broken(element) ==
    /\ broken
    /\ \E outcome \in BrokenOutcomes :
          /\ alive' = (outcome = "returns")
          /\ ranking' \in {ranking} \cup
                          (IF outcome = "returns"
                           THEN {list_remove(ranking, element)} ELSE {})
    /\ \E extra \in Rounds(disposed, Instances(inserted, element)) :
          disposed' = dispose_more(disposed, extra)
    /\ strayDisposals' \in strayDisposals..MaxStray
    /\ before' = ranking
    /\ disposedBefore' = disposed
    /\ lastOp' = [op |-> "remove_all", arg |-> element]
    /\ answer' = [q |-> "none"]
    /\ UNCHANGED <<cfg, inserted, success, endUse, argDisposals, chain>>

\* remove_all(T*): the argument is disposed of, then list::remove walks the
\* list and drops the nodes == element that it meets.
remove_all_ptr_broken(element) ==
    /\ broken
    /\ strayDisposals < MaxStray
    /\ strayDisposals' = strayDisposals + 1
    /\ argDisposals' = [argDisposals EXCEPT ![element] = @ + 1]
    /\ \E outcome \in BrokenOutcomes :
          /\ alive' = (outcome = "returns")
          /\ ranking' \in {ranking} \cup
                          (IF outcome = "returns"
                           THEN {list_remove(ranking, element)} ELSE {})
    /\ before' = ranking
    /\ disposedBefore' = disposed
    /\ lastOp' = [op |-> "remove_all_ptr", arg |-> element]
    /\ answer' = [q |-> "none"]
    /\ UNCHANGED <<cfg, inserted, success, disposed, endUse, chain>>

\* The disposal loop of clear and list::clear.  The loop disposes of whatever
\* it meets, nodes the list holds or has freed and objects that are no node,
\* any number of times.  The list stays as broken as it was, except that
\* list::clear makes a list of no node an empty list again.
clear_list_broken(outcome) ==
    /\ \E extra \in Rounds(disposed, 1..Len(disposed)) :
          disposed' = dispose_more(disposed, extra)
    /\ strayDisposals' \in strayDisposals..MaxStray
    /\ \E relinked \in BOOLEAN :
          /\ relinked => outcome = "returns" /\ ranking = <<>>
          /\ chain' = IF relinked THEN "sound" ELSE chain
    /\ before' = ranking
    /\ disposedBefore' = disposed
    /\ answer' = [q |-> "none"]
    /\ UNCHANGED <<cfg, ranking, inserted, success, endUse, argDisposals>>

clear_broken ==
    /\ broken
    /\ \E outcome \in BrokenOutcomes :
          /\ alive' = (outcome = "returns")
          /\ clear_list_broken(outcome)
    /\ lastOp' = [op |-> "clear", arg |-> 0]

\* ~Ranker(): this->clear(); the object is gone afterwards.
destructor_broken ==
    /\ broken
    /\ \E outcome \in BrokenOutcomes : clear_list_broken(outcome)
    /\ alive' = FALSE
    /\ lastOp' = [op |-> "destructor", arg |-> 0]

\* remove_first called on elements absent from the rankings that insert
\* builds, and every member called on the broken list that leaves.
NextAbsent ==
    \/ \E element \in Values : insert(element)
    \/ \E element \in Values : remove_first_absent(element)
    \/ \E element \in Values : remove_first_ptr_absent(element)
    \/ empty_broken
    \/ \E q \in {"size", "top", "bottom", "iterate"} : query_broken(q)
    \/ \E element \in Values : insert_broken(element)
    \/ \E element \in Values : remove_first_broken(element)
    \/ \E element \in Values : remove_first_ptr_broken(element)
    \/ \E element \in Values : remove_all_broken(element)
    \/ \E element \in Values : remove_all_ptr_broken(element)
    \/ clear_broken
    \/ destructor_broken

SpecAbsent == Init /\ [][NextAbsent]_vars

(* ---------------------- handle-like elements -------------------------- *)

\* With DisposalDeletePolicy an element value is a handle and every copy of it
\* names the same resource: delete is applied to the resource of value v once
\* for each disposal of a node holding v.
RECURSIVE Released(_, _, _, _)
Released(ins, d, n, v) ==
    IF n = 0 THEN 0
    ELSE (IF ins[n] = v THEN d[n] ELSE 0) + Released(ins, d, n - 1, v)

\* How often delete has been applied to the resource of value v, the
\* invocations on nodes being those of d: a T* overload applies it to its
\* argument.
Deletes(ins, d, v) == Released(ins, d, Len(ins), v) + argDisposals[v]

\* The resource that node's handle names has been released.
dangling(ins, d, node) == Deletes(ins, d, node.val) >= 1

\* insert of a handle whose resource has not been released: the caller may
\* insert a handle it has inserted before, but not a dangling one.
insert_handle(element) ==
    /\ Len(inserted) < MaxHandles
    /\ Deletes(inserted, disposed, element) = 0
    /\ insert(element)

\* delete of a resource that has been released before is undefined.  The
\* allocator misses it and the member goes on as on any element, as the
\* actions above; or the process is killed, by the allocator inside the
\* policy call or later in the same call; or the allocator misses it and the
\* storage it releases is in use again, by a node of the list: the member
\* returns and the list is broken.
DoubleDeleteOutcomes == {"killed", "broken"}

\* The list after a second delete with the given outcome.
double_delete(outcome) == IF outcome = "broken" THEN "broken" ELSE chain

\* insert disposing of an evicted node whose resource has been released: a
\* killed call has linked the new node in and has erased nothing.
insert_double_delete(element) ==
    /\ usable
    /\ Len(inserted) < MaxHandles
    /\ Deletes(inserted, disposed, element) = 0
    /\ LET position == equal_range(ranking, element)
           tnr == top_not_reached(ranking, TOP)
           pos == insert_pos(Behavior, position)
           node == [val |-> element, id |-> Len(inserted) + 1]
           r1 == list_insert(ranking, pos, node)
           d1 == Append(disposed, 0)
           ins1 == Append(inserted, element)
       IN /\ ~tnr
          /\ dangling(ins1, d1, r1[back(r1)])
          /\ inserted' = ins1
          /\ disposed' = Dispose(d1, r1[back(r1)])
          /\ \E outcome \in DoubleDeleteOutcomes :
                /\ alive' = (outcome = "broken")
                /\ chain' = double_delete(outcome)
                /\ IF outcome = "broken"
                   THEN /\ ranking' = list_erase(r1, back(r1))
                        /\ success' = insert_success(tnr, r1, pos)
                   ELSE /\ ranking' = r1
                        /\ success' = success
    /\ before' = ranking
    /\ disposedBefore' = disposed
    /\ lastOp' = [op |-> "insert", arg |-> element]
    /\ answer' = [q |-> "none"]
    /\ UNCHANGED <<cfg, endUse, strayDisposals, argDisposals, brokenCalls>>

\* remove_first(const T&) disposing of a node whose resource has been
\* released.
remove_first_double_delete(element) ==
    /\ usable
    /\ find(ranking, element) # End(ranking)
    /\ LET pos == find(ranking, element)
       IN /\ dangling(inserted, disposed, ranking[pos])
          /\ disposed' = Dispose(disposed, ranking[pos])
          /\ \E outcome \in DoubleDeleteOutcomes :
                /\ alive' = (outcome = "broken")
                /\ chain' = double_delete(outcome)
                /\ ranking' = IF outcome = "broken"
                              THEN list_erase(ranking, pos) ELSE ranking
    /\ before' = ranking
    /\ disposedBefore' = disposed
    /\ lastOp' = [op |-> "remove_first", arg |-> element]
    /\ answer' = [q |-> "none"]
    /\ UNCHANGED <<cfg, inserted, success, endUse, strayDisposals,
                   argDisposals, brokenCalls>>

\* remove_all(const T&) meeting, at the node *first of its disposal loop, a
\* resource that has been released: a killed call has got as far as a node
\* *it from there on.
remove_all_double_delete(element) ==
    /\ usable
    /\ \E first \in 1..Len(ranking) :
          /\ element = ranking[first].val
          /\ dangling(inserted,
                      dispose_equal(disposed, SubSeq(ranking, 1, first - 1), 1,
                                    element),
                      ranking[first])
          /\ \E outcome \in DoubleDeleteOutcomes :
                /\ alive' = (outcome = "broken")
                /\ chain' = double_delete(outcome)
                /\ IF outcome = "broken"
                   THEN /\ disposed' = dispose_equal(disposed, ranking, 1,
                                                     element)
                        /\ ranking' = list_remove(ranking, element)
                   ELSE /\ \E it \in first..Len(ranking) :
                              /\ element = ranking[it].val
                              /\ disposed' =
                                    dispose_equal(disposed,
                                                  SubSeq(ranking, 1, it), 1,
                                                  element)
                        /\ ranking' = ranking
    /\ before' = ranking
    /\ disposedBefore' = disposed
    /\ lastOp' = [op |-> "remove_all", arg |-> element]
    /\ answer' = [q |-> "none"]
    /\ UNCHANGED <<cfg, inserted, success, endUse, strayDisposals,
                   argDisposals, brokenCalls>>

\* The disposal loop of clear meeting, at the node *first, a resource that
\* has been released: a killed call has got as far as a node *it from there
\* on.
clear_list_double_delete(outcome) ==
    /\ \E first \in 1..Len(ranking) :
          /\ dangling(inserted,
                      dispose_each(disposed, SubSeq(ranking, 1, first - 1), 1),
                      ranking[first])
          /\ IF outcome = "broken"
             THEN /\ disposed' = dispose_each(disposed, ranking, 1)
                  /\ ranking' = <<>>
             ELSE /\ \E it \in first..Len(ranking) :
                        disposed' = dispose_each(disposed,
                                                 SubSeq(ranking, 1, it), 1)
                  /\ ranking' = ranking
    /\ chain' = double_delete(outcome)
    /\ before' = ranking
    /\ disposedBefore' = disposed

clear_double_delete ==
    /\ usable
    /\ \E outcome \in DoubleDeleteOutcomes :
          /\ alive' = (outcome = "broken")
          /\ clear_list_double_delete(outcome)
    /\ lastOp' = [op |-> "clear", arg |-> 0]
    /\ answer' = [q |-> "none"]
    /\ UNCHANGED <<cfg, inserted, success, endUse, strayDisposals,
                   argDisposals, brokenCalls>>

\* ~Ranker(): this->clear(), killed in the same places.
destructor_double_delete ==
    /\ usable
    /\ clear_list_double_delete("killed")
    /\ alive' = FALSE
    /\ lastOp' = [op |-> "destructor", arg |-> 0]
    /\ answer' = [q |-> "none"]
    /\ UNCHANGED <<cfg, inserted, success, endUse, strayDisposals,
                   argDisposals, brokenCalls>>

\* remove_first(T*) with DisposalDeletePolicy: delete is applied to the
\* argument.  The policy call is killed on an argument that is no handle of
\* the ranking's or whose resource has been released; when it returns, what
\* find returned is erased, the node found or end().
remove_first_ptr_handle(element) ==
    /\ usable
    /\ strayDisposals < MaxArgDeletes
    /\ strayDisposals' = strayDisposals + 1
    /\ argDisposals' = [argDisposals EXCEPT ![element] = @ + 1]
    /\ LET pos == find(ranking, element)
           twice == Deletes(inserted, disposed, element) >= 1
       IN \/ /\ twice \/ Instances(inserted, element) = {}
             /\ alive' = FALSE
             /\ UNCHANGED <<ranking, endUse, chain>>
          \/ /\ pos # End(ranking)
             /\ ranking' = list_erase(ranking, pos)
             /\ \E outcome \in {"sound", "broken"} :
                   /\ outcome = "broken" => twice
                   /\ chain' = double_delete(outcome)
             /\ UNCHANGED <<alive, endUse>>
          \/ /\ pos = End(ranking)
             /\ endUse' = endUse \cup {"erased"}
             /\ \E outcome \in EraseEndOutcomes :
                   /\ alive' = (outcome = "return")
                   /\ chain' = erase_end(outcome)
             /\ UNCHANGED ranking
    /\ before' = ranking
    /\ disposedBefore' = disposed
    /\ lastOp' = [op |-> "remove_first_ptr", arg |-> element]
    /\ answer' = [q |-> "none"]
    /\ UNCHANGED <<cfg, inserted, success, disposed, brokenCalls>>

\* remove_all(T*) with DisposalDeletePolicy: delete is applied to the
\* argument, and when that returns list::remove drops the nodes == it.
remove_all_ptr_handle(element) ==
    /\ usable
    /\ strayDisposals < MaxArgDeletes
    /\ strayDisposals' = strayDisposals + 1
    /\ argDisposals' = [argDisposals EXCEPT ![element] = @ + 1]
    /\ LET twice == Deletes(inserted, disposed, element) >= 1
       IN \/ /\ twice \/ Instances(inserted, element) = {}
             /\ alive' = FALSE
             /\ UNCHANGED <<ranking, chain>>
          \/ /\ ranking' = list_remove(ranking, element)
             /\ \E outcome \in {"sound", "broken"} :
                   /\ outcome = "broken" => twice
                   /\ chain' = double_delete(outcome)
             /\ UNCHANGED alive
    /\ before' = ranking
    /\ disposedBefore' = disposed
    /\ lastOp' = [op |-> "remove_all_ptr", arg |-> element]
    /\ answer' = [q |-> "none"]
    /\ UNCHANGED <<cfg, inserted, success, disposed, endUse, brokenCalls>>

\* insert of a handle whose resource has not been released, into a broken
\* list.
insert_handle_broken(element) ==
    /\ Len(inserted) < MaxHandles
    /\ Deletes(inserted, disposed, element) = 0
    /\ insert_broken(element)

NextHandle ==
    \/ \E element \in Values : insert_handle(element)
    \/ \E element \in Values : remove_first(element)
    \/ \E element \in Values : remove_all(element)
    \/ clear
    \/ destructor
    \/ \E element \in Values : insert_double_delete(element)
    \/ \E element \in Values : remove_first_double_delete(element)
    \/ \E element \in Values : remove_all_double_delete(element)
    \/ clear_double_delete
    \/ destructor_double_delete
    \/ \E element \in Values : remove_first_ptr_handle(element)
    \/ \E element \in Values : remove_all_ptr_handle(element)
    \/ empty_broken
    \/ \E q \in {"size", "top", "bottom", "iterate"} : query_broken(q)
    \/ \E element \in Values : insert_handle_broken(element)
    \/ \E element \in Values : remove_first_broken(element)
    \/ \E element \in Values : remove_first_ptr_broken(element)
    \/ \E element \in Values : remove_all_broken(element)
    \/ \E element \in Values : remove_all_ptr_broken(element)
    \/ clear_broken
    \/ destructor_broken

SpecHandle == Init /\ [][NextHandle]_vars

(* ------------------- vocabulary of the properties --------------------- *)

Min(a, b) == IF a < b THEN a ELSE b

\* The instance numbers held by a list.
Ids(r) == {r[i].id : i \in 1..Len(r)}

\* The instance number of the element the most recent insert was given.
NewId == Len(inserted)

\* The value the most recent insert was given.
NewVal == inserted[NewId]

\* How many times the last operation invoked the disposal action on instance i.
DisposedNow(i) ==
    disposed[i] - (IF i <= Len(disposedBefore) THEN disposedBefore[i] ELSE 0)

\* The instances the last operation invoked the disposal action on.
DisposedSet == {i \in 1..Len(disposed) : DisposedNow(i) > 0}

\* The number of disposal invocations of the last operation.
RECURSIVE SumNow(_)
SumNow(n) == IF n = 0 THEN 0 ELSE DisposedNow(n) + SumNow(n - 1)

DisposalsNow == SumNow(Len(disposed))

\* The list r without the node of instance i.
RECURSIVE Without(_, _)
Without(r, i) ==
    IF r = <<>> THEN <<>>
    ELSE IF Head(r).id = i THEN Without(Tail(r), i)
    ELSE <<Head(r)>> \o Without(Tail(r), i)

\* The list r without its last node.
Front(r) == SubSeq(r, 1, Len(r) - 1)

WasInsert == lastOp.op = "insert"

\* The last operation was an insert into a ranking holding TOP elements.
WasFullInsert == WasInsert /\ Len(before) = TOP

Sorted(r) == \A i, j \in 1..Len(r) : i < j => ~Comp(r[j].val, r[i].val)

(* ----------------------------- properties ----------------------------- *)

\* C1 (top-K retention, insert calls only): the ranking holds exactly
\* min(TOP, number of inserts) elements, and no instance that was evicted or
\* rejected compares strictly less under Comp than an instance still held.
C1_TopKRetention ==
    /\ Len(ranking) = Min(TOP, Len(inserted))
    /\ \A e \in (1..Len(inserted)) \ Ids(ranking) :
          \A i \in 1..Len(ranking) : ~Comp(inserted[e], ranking[i].val)

\* An old bottom was evicted by a better element, and what is held is strictly
\* better than something that is gone.
C1_Witness ==
    /\ WasFullInsert /\ TOP >= 2 /\ success
    /\ Len(inserted) >= TOP + 2
    /\ \E e \in (1..Len(inserted)) \ Ids(ranking) :
          Comp(ranking[Len(ranking)].val, inserted[e])

\* C2 (capacity invariant I1): size() <= TOP after every operation, and an
\* insert into a ranking of size TOP leaves the size at TOP, one element having
\* been disposed.
C2_CapacityInvariant ==
    /\ Len(ranking) <= TOP
    /\ WasFullInsert => Len(ranking) = TOP /\ DisposalsNow = 1

\* An insert into a full ranking of capacity two or more that had already
\* been given more elements than it can hold.
C2_Witness ==
    /\ WasFullInsert /\ TOP >= 2 /\ Len(ranking) = TOP
    /\ Len(inserted) > TOP

\* C3 (sortedness invariant I2): no element of the sequence compares less
\* under Comp than an element that precedes it.
C3_Sorted == Sorted(ranking)

\* An insert placed its element strictly inside a sequence of three ranks.
C3_Witness ==
    /\ WasInsert /\ Len(ranking) = 3
    /\ ranking[2].id = NewId
    /\ Comp(ranking[1].val, ranking[2].val)
    /\ Comp(ranking[2].val, ranking[3].val)

\* C4 (return value of insert): insert returns true exactly when the inserted
\* instance is in the sequence afterwards, and false exactly when the inserted
\* instance is the one that was evicted.
C4_ReturnValue ==
    WasInsert =>
        /\ success <=> NewId \in Ids(ranking)
        /\ ~success <=> (DisposedNow(NewId) = 1 /\ Len(before) >= TOP)

\* A rejected insert with AddBeforeEqual into a non-empty full ranking.
C4_Witness ==
    /\ WasFullInsert /\ TOP >= 1 /\ ~success
    /\ Behavior = "AddBeforeEqual"
    /\ Comp(before[Len(before)].val, NewVal)

\* C5 as stated (eviction correctness): an insert into a full ranking disposes
\* exactly one element: the previous bottom if Comp(new, bottom) holds, and the
\* new element itself otherwise, under both same-value behaviours.
C5_EvictionAsClaimed ==
    WasFullInsert =>
        /\ DisposalsNow = 1
        /\ IF TOP > 0 /\ Comp(NewVal, before[Len(before)].val)
           THEN DisposedSet = {before[Len(before)].id}
           ELSE DisposedSet = {NewId}

\* The new element is placed before the previous bottom.
GoesBeforeBottom ==
    /\ TOP > 0
    /\ \/ Comp(NewVal, before[Len(before)].val)
       \/ /\ Behavior = "AddBeforeEqual"
          /\ Equiv(NewVal, before[Len(before)].val)

\* C5 amended: an insert into a full ranking disposes exactly one element: the
\* previous bottom if Comp(new, bottom) holds or if the new element is
\* equivalent to the bottom and the behaviour is AddBeforeEqual; the new
\* element itself otherwise (always so when TOP is 0).
C5_Eviction ==
    WasFullInsert =>
        /\ DisposalsNow = 1
        /\ IF GoesBeforeBottom
           THEN /\ DisposedSet = {before[Len(before)].id}
                /\ NewId \in Ids(ranking)
                /\ Without(ranking, NewId) = Front(before)
           ELSE /\ DisposedSet = {NewId}
                /\ ranking = before

\* With AddBeforeEqual an element equivalent to the bottom pushed the bottom out.
C5_Witness ==
    /\ WasFullInsert /\ TOP >= 1
    /\ Behavior = "AddBeforeEqual"
    /\ Equiv(NewVal, before[Len(before)].val)
    /\ DisposedSet = {before[Len(before)].id}

\* The position of instance i in the list r (0 when it is not there).
RECURSIVE PosOf(_, _, _)
PosOf(r, i, k) ==
    IF k > Len(r) THEN 0
    ELSE IF r[k].id = i THEN k
    ELSE PosOf(r, i, k + 1)

\* C6 (tie-break determinism): among held elements equivalent under Comp the
\* top-to-bottom order is the insertion order with AddAfterEqual and its
\* reverse with AddBeforeEqual; an insert puts its element right after the
\* whole equivalent run (AddAfterEqual) or right before it (AddBeforeEqual),
\* and the other elements keep their relative order.
C6_TieBreak ==
    /\ \A i, j \in 1..Len(ranking) :
          (i < j /\ Equiv(ranking[i].val, ranking[j].val)) =>
              IF Behavior = "AddAfterEqual"
              THEN ranking[i].id < ranking[j].id
              ELSE ranking[i].id > ranking[j].id
    /\ (WasInsert /\ NewId \in Ids(ranking)) =>
          LET p == PosOf(ranking, NewId, 1)
              eq == {i \in 1..Len(ranking) : i # p /\ Equiv(ranking[i].val, NewVal)}
          IN /\ (Behavior = "AddAfterEqual" /\ eq # {}) =>
                   (p - 1) \in eq /\ \A i \in eq : i < p
             /\ (Behavior = "AddBeforeEqual" /\ eq # {}) =>
                   (p + 1) \in eq /\ \A i \in eq : i > p
             /\ Without(ranking, NewId) \in {before, Front(before)}
    /\ (WasInsert /\ NewId \notin Ids(ranking)) => ranking = before

\* The element just inserted has joined a run of equivalent elements, three in
\* all and not all of the same value.
C6_Witness ==
    /\ WasInsert /\ Len(ranking) >= 3 /\ NewId \in Ids(ranking)
    /\ Cardinality({i \in 1..Len(ranking) : Equiv(ranking[i].val, NewVal)}) >= 3
    /\ \E i \in 1..Len(ranking) : Equiv(ranking[i].val, NewVal) /\ ranking[i].val # NewVal

\* C7 (disposal completeness): every instance that has left the ranking has had
\* the disposal action invoked on it exactly once, no instance more than once,
\* and no instance still in the sequence has been disposed.
C7_DisposalCompleteness ==
    /\ Len(disposed) = Len(inserted)
    /\ \A i \in 1..Len(inserted) :
          IF i \in Ids(ranking) THEN disposed[i] = 0 ELSE disposed[i] = 1
    /\ Cardinality(Ids(ranking)) = Len(ranking)
    /\ ~alive => ranking = <<>>

\* The ranking was destroyed while holding elements, after others had left it
\* by eviction or removal.
C7_Witness ==
    /\ ~alive /\ Len(before) >= 2
    /\ Len(inserted) > Len(before)
    /\ \A i \in 1..Len(inserted) : disposed[i] = 1

\* The last insert found a full, non-empty ranking configured AddAfterEqual in
\* which every element is equivalent to the new one.
AllEqualFullAfter ==
    /\ WasFullInsert /\ TOP >= 1
    /\ Behavior = "AddAfterEqual"
    /\ \A i \in 1..Len(before) : Equiv(before[i].val, NewVal)

\* The earliest-inserted instance of a list.
Earliest(r) == CHOOSE i \in Ids(r) : \A j \in Ids(r) : i <= j

\* C8 as stated: in that case insert evicts the earliest-inserted equivalent
\* element, keeps the new element and returns true.
C8_AllEqualAsClaimed ==
    AllEqualFullAfter =>
        /\ success
        /\ NewId \in Ids(ranking)
        /\ DisposedSet = {Earliest(before)}

\* C8 amended: in that case insert evicts the newly inserted element itself,
\* leaves the sequence as it was and returns false.
C8_AllEqual ==
    AllEqualFullAfter =>
        /\ ~success
        /\ ranking = before
        /\ DisposedSet = {NewId}
        /\ DisposalsNow = 1

\* Capacity 2 holding two equivalent elements, a third equivalent one inserted.
C8_Witness ==
    /\ AllEqualFullAfter
    /\ TOP = 2
    /\ Len(inserted) = 3

\* C9 (insert below capacity): returns true, disposes nothing, grows the
\* sequence by one, and the elements held before stay in their order.
C9_InsertBelowCapacity ==
    (WasInsert /\ Len(before) < TOP) =>
        /\ success
        /\ DisposalsNow = 0
        /\ Len(ranking) = Len(before) + 1
        /\ NewId \in Ids(ranking)
        /\ Without(ranking, NewId) = before

\* The insert that fills the last free place, put in the middle of the sequence.
C9_Witness ==
    /\ WasInsert /\ Len(before) = TOP - 1 /\ TOP >= 3
    /\ ranking[1].id # NewId /\ ranking[Len(ranking)].id # NewId

\* C10 (capacity zero): every insert returns false and disposes the inserted
\* element exactly once, and the ranking is always empty.
C10_CapacityZero ==
    TOP = 0 =>
        /\ ranking = <<>>
        /\ WasInsert =>
              /\ ~success
              /\ DisposedSet = {NewId}
              /\ DisposalsNow = 1
              /\ disposed[NewId] = 1

\* A second insert into a ranking of capacity zero.
C10_Witness ==
    /\ TOP = 0 /\ WasInsert
    /\ Len(inserted) >= 2

\* The last operation was a remove_first of a value the ranking did not hold.
WasAbsentRemoveFirst ==
    lastOp.op = "remove_first" /\ find(before, lastOp.arg) = End(before)

\* C11 as stated (remove_first of an absent element is a safe no-op): the
\* sequence is unchanged, the disposal action is not invoked, the ranking
\* stays usable, and end() is never dereferenced or erased.
C11_AbsentIsNoOp ==
    /\ endUse = {}
    /\ chain = "sound"
    /\ WasAbsentRemoveFirst =>
          /\ ranking = before
          /\ disposed = disposedBefore
          /\ strayDisposals = 0
          /\ alive

\* The positions of the list r that hold a value == v.
PositionsOf(r, v) == {i \in 1..Len(r) : r[i].val = v}

\* C12 (remove_all): every element == the argument is removed and disposed
\* once and nothing else is; the others keep their order, the sequence stays
\* sorted and the size goes down by the number of elements removed.
C12_RemoveAll ==
    lastOp.op = "remove_all" =>
        LET v == lastOp.arg
            gone == PositionsOf(before, v)
        IN /\ ranking = SelectSeq(before, LAMBDA n : n.val # v)
           /\ PositionsOf(ranking, v) = {}
           /\ Len(ranking) = Len(before) - Cardinality(gone)
           /\ DisposedSet = {before[i].id : i \in gone}
           /\ DisposalsNow = Cardinality(gone)
           /\ Sorted(ranking)

\* remove_all took two equal elements out and left an element that is
\* equivalent to them under Comp but not equal.
C12_Witness ==
    /\ lastOp.op = "remove_all"
    /\ Cardinality(PositionsOf(before, lastOp.arg)) = 2
    /\ \E i \in 1..Len(ranking) : Equiv(ranking[i].val, lastOp.arg)

\* C13 (remove_first of a present element): exactly one element is removed and
\* disposed, the one nearest the top among those == the argument; the others,
\* later equal ones included, keep their order.
C13_RemoveFirst ==
    (lastOp.op = "remove_first" /\ PositionsOf(before, lastOp.arg) # {}) =>
        LET gone == PositionsOf(before, lastOp.arg)
            p == CHOOSE i \in gone : \A j \in gone : i <= j
        IN /\ ranking = SubSeq(before, 1, p - 1) \o SubSeq(before, p + 1, Len(before))
           /\ Len(ranking) = Len(before) - 1
           /\ DisposedSet = {before[p].id}
           /\ DisposalsNow = 1

\* remove_first passed over an equivalent but different element at the top,
\* removed the first equal one and left a later equal one.
C13_Witness ==
    /\ lastOp.op = "remove_first"
    /\ Len(before) = 3 /\ Len(ranking) = 2
    /\ before[1].val # lastOp.arg /\ Equiv(before[1].val, lastOp.arg)
    /\ before[2].val = lastOp.arg /\ before[3].val = lastOp.arg
    /\ ranking = <<before[1], before[3]>>

WasClear == lastOp.op \in {"clear", "destructor"}

\* What an insert of value v as instance n leaves in a newly constructed
\* ranking of the given capacity.
FreshInsert(capacity, v, n) == IF capacity > 0 THEN <<[val |-> v, id |-> n]>> ELSE <<>>

\* After clear() or the destructor the sequence is empty and every element
\* that was held has been disposed exactly once by the call; an insert into an
\* emptied ranking does what it does on a new one.
C14_State ==
    /\ WasClear =>
          /\ ranking = <<>>
          /\ DisposedSet = Ids(before)
          /\ \A i \in Ids(before) : DisposedNow(i) = 1 /\ disposed[i] = 1
          /\ DisposalsNow = Len(before)
    /\ lastOp.op = "destructor" <=> ~alive
    /\ (WasInsert /\ before = <<>>) =>
          /\ ranking = FreshInsert(TOP, NewVal, NewId)
          /\ success = (TOP > 0)

\* A clear() or destructor step leaves the capacity and the policies as they
\* were and adds one disposal for each element held, none for any other.
C14_Step ==
    lastOp'.op \in {"clear", "destructor"} =>
        /\ TOP' = TOP /\ Behavior' = Behavior
        /\ ranking' = <<>>
        /\ disposed' = [i \in 1..Len(disposed) |->
                          disposed[i] + (IF i \in Ids(ranking) THEN 1 ELSE 0)]

\* C14 (clear): from any reachable state clear() disposes each retained
\* element exactly once and leaves the ranking empty with its capacity
\* unchanged, so that later inserts behave as on a new ranking of that
\* capacity; the destructor performs the same clear.
C14_Clear == [](C14_State) /\ [][C14_Step]_vars

\* clear() of a ranking of three elements, after an earlier element had left.
C14_Witness ==
    /\ lastOp.op = "clear"
    /\ Len(before) = 3 /\ DisposalsNow = 3
    /\ Len(inserted) = 4

\* What the query called last answered, checked against the sequence.
C15_State ==
    /\ answer.q = "top" =>
          /\ answer.value = ranking[1]
          /\ \A i \in 1..Len(ranking) : ~Comp(ranking[i].val, answer.value.val)
    /\ answer.q = "bottom" =>
          /\ answer.value = ranking[Len(ranking)]
          /\ \A i \in 1..Len(ranking) : ~Comp(answer.value.val, ranking[i].val)
    /\ answer.q = "size" => answer.value = Len(ranking)
    /\ answer.q = "empty" => (answer.value <=> Len(ranking) = 0)
    /\ answer.q = "iterate" => answer.value = ranking

\* A step that ends with an answer is a query and changes nothing else.
C15_Step ==
    answer'.q # "none" =>
        /\ ranking' = ranking /\ TOP' = TOP
        /\ disposed' = disposed /\ strayDisposals' = strayDisposals
        /\ inserted' = inserted /\ alive' = alive

\* C15 (queries): on a non-empty ranking top() is the first element, below
\* which none compares, and bottom() the last, above which none compares;
\* empty(), size(), top(), bottom() and iteration change neither the sequence
\* nor the capacity nor what has been disposed, and empty() is true exactly
\* when size() is 0.
C15_Queries == [](C15_State) /\ [][C15_Step]_vars

\* bottom() asked of a full ranking whose top compares less than its bottom,
\* after an eviction.
C15_Witness ==
    /\ answer.q = "bottom"
    /\ Len(ranking) = TOP /\ TOP >= 2
    /\ Comp(ranking[1].val, answer.value.val)
    /\ \E i \in 1..Len(disposed) : disposed[i] = 1

\* C16 (what insert's return value tells): when insert returns false the
\* sequence is as it was before the call and the call's single disposal is on
\* the inserted element; when insert returns true on a full ranking the single
\* disposal is on the previous bottom and not on the inserted element.
C16_InsertFrame ==
    /\ (WasInsert /\ ~success) =>
          /\ ranking = before
          /\ DisposalsNow = 1
          /\ DisposedSet = {NewId}
    /\ (WasFullInsert /\ success) =>
          /\ DisposalsNow = 1
          /\ DisposedSet = {before[Len(before)].id}
          /\ DisposedNow(NewId) = 0
          /\ NewId \in Ids(ranking)

\* Capacity 1: an element, then a better one that evicts it, then a worse one
\* that is turned away.
C16_Witness ==
    /\ TOP = 1 /\ Len(inserted) = 3
    /\ WasInsert /\ ~success
    /\ ranking = <<[val |-> inserted[2], id |-> 2]>>
    /\ Comp(inserted[2], inserted[1]) /\ Comp(inserted[2], inserted[3])
    /\ disposed = <<1, 0, 1>>

\* All disposal invocations so far, on list nodes and on other objects.
RECURSIVE SumSeq(_, _)
SumSeq(d, n) == IF n = 0 THEN 0 ELSE d[n] + SumSeq(d, n - 1)

DisposalCount == SumSeq(disposed, Len(disposed)) + strayDisposals

\* C17 as stated (the T* overloads are parallel to the by-value ones): a step
\* of remove_first(T*) or remove_all(T*) leaves the sequence its by-value
\* counterpart leaves and invokes the disposal action once per element
\* removed: not at all when the target of remove_all is absent, n times when it
\* is present n times.
C17_PtrParallel ==
    [][ /\ lastOp'.op = "remove_all_ptr" =>
              /\ ranking' = list_remove(ranking, lastOp'.arg)
              /\ DisposalCount' - DisposalCount =
                     Cardinality(PositionsOf(ranking, lastOp'.arg))
        /\ lastOp'.op = "remove_first_ptr" =>
              /\ ranking' = list_erase(ranking, find(ranking, lastOp'.arg))
              /\ DisposalCount' - DisposalCount = 1
      ]_vars

\* The values insert has been given.
InsertedValues == {inserted[i] : i \in 1..Len(inserted)}

\* Incomparability under Comp is transitive on the set S, which makes Comp a
\* strict weak ordering of S.
WeakOn(S) ==
    \A a, b, c \in S : (Equiv(a, b) /\ Equiv(b, c)) => Equiv(a, c)

\* C18 as stated: with a Comp that is only a strict partial order, after any
\* sequence of inserts no element of the sequence compares less than an
\* element that precedes it.
C18_SortedAsClaimed ==
    Order = "partial" =>
        \A i, j \in 1..Len(ranking) :
            i < j => ~Comp(ranking[j].val, ranking[i].val)

\* C18 amended: with a Comp that is only a strict partial order the sequence
\* is sorted after any sequence of inserts provided incomparability is
\* transitive among the values inserted.
C18_SortedWhenWeak ==
    (Order = "partial" /\ WeakOn(InsertedValues)) => Sorted(ranking)

\* Three distinct values were inserted, two of them incomparable and both less
\* than the third, the greatest first, and all are held.
C18_Witness ==
    /\ Order = "partial" /\ WeakOn(InsertedValues)
    /\ Len(inserted) = 3 /\ Len(ranking) = 3
    /\ Cardinality(InsertedValues) = 3
    /\ Equiv(ranking[1].val, ranking[2].val)
    /\ Comp(ranking[2].val, ranking[3].val)
    /\ ranking[3].id = 1

\* How often the resource of handle value v has been released.
ReleasedNow(v) == Deletes(inserted, disposed, v)

\* C19 as stated (handle-like elements): no resource is released twice and no
\* released resource is still in the sequence, also when a handle value was
\* inserted more than once.
C19_HandleSafety ==
    \A v \in Values :
        /\ ReleasedNow(v) <= 1
        /\ ReleasedNow(v) >= 1 => PositionsOf(ranking, v) = {}

====
